---------------------------- MODULE Spec2Model ----------------------------
(***************************************************************************)
(* The tool-invocation contract of poke-oura-mcp-server, in its three      *)
(* variants:                                                               *)
(*   "sse"   src/src/server.mjs lines 1-228   (JSON-RPC + REST + SSE)      *)
(*   "rest"  src/src/server.mjs lines 230-341 (REST only, snake_case)      *)
(*   "poke"  src/unnamed/part_000             (CORS/OAuth, POST /mcp)      *)
(*                                                                         *)
(* JavaScript values are tagged records so that a string, a number, a      *)
(* boolean, null and undefined can be told apart and compared.  Objects    *)
(* returned by the handlers are ordered sequences of <<key, value>>        *)
(* entries, as JSON.stringify sees them.                                   *)
(***************************************************************************)
EXTENDS Integers, Sequences, FiniteSets, TLC

VARIABLES variant, request, response, calls, conn, timer, written

vars == <<variant, request, response, calls, conn, timer, written>>

toolVars == <<variant, request, response, calls>>

sseVars == <<conn, timer, written>>

(***************************************************************************)
(* Bounds                                                                  *)
(***************************************************************************)
MaxCalls == 2

MaxConn == 3

MaxHeartbeats == 2

(***************************************************************************)
(* JavaScript values                                                       *)
(***************************************************************************)
JV(t, b, n, s) == [t |-> t, b |-> b, n |-> n, s |-> s]

Undef == JV("undefined", FALSE, 0, "")

Null == JV("null", FALSE, 0, "")

JBool(b) == JV("boolean", b, 0, "")

JNum(n) == JV("number", FALSE, n, "")

JStr(s) == JV("string", FALSE, 0, s)

\* ToBoolean: undefined, null, false, 0 and "" are falsy
Truthy(v) ==
  CASE v.t = "undefined" -> FALSE
    [] v.t = "null" -> FALSE
    [] v.t = "boolean" -> v.b
    [] v.t = "number" -> v.n # 0
    [] v.t = "string" -> v.s # ""
    [] OTHER -> TRUE

Digit(d) == SubSeq("0123456789", d + 1, d + 1)

RECURSIVE NatToString(_)
NatToString(n) == IF n < 10 THEN Digit(n) ELSE NatToString(n \div 10) \o Digit(n % 10)

\* Number.prototype.toString for the integers that occur
NumberToString(n) == IF n < 0 THEN "-" \o NatToString(0 - n) ELSE NatToString(n)

\* JSToString, as a template literal `${v}` applies it
JSToString(v) ==
  CASE v.t = "undefined" -> "undefined"
    [] v.t = "null" -> "null"
    [] v.t = "boolean" -> (IF v.b THEN "true" ELSE "false")
    [] v.t = "number" -> NumberToString(v.n)
    [] v.t = "string" -> v.s
    [] OTHER -> "[object Object]"

\* a conversion that drops the fraction digit of a whole number, as String(x)
toFixed1_NoPadding(num, den) ==
  LET tenths == (20 * num + den) \div (2 * den)
  IN  IF tenths % 10 = 0 THEN NatToString(tenths \div 10)
      ELSE NatToString(tenths \div 10) \o "." \o Digit(tenths % 10)

\* (num / den).toFixed(1): the quotient rounded to one decimal place
toFixed1(num, den) ==
  LET tenths == (20 * num + den) \div (2 * den)
  IN  NatToString(tenths \div 10) \o "." \o Digit(tenths % 10)

(***************************************************************************)
(* Objects: ordered <<key, value>> entries                                 *)
(***************************************************************************)
Keys(obj) == {obj[i][1] : i \in 1..Len(obj)}

\* property access: undefined when the key is absent
Get(obj, k) ==
  IF k \in Keys(obj)
    THEN (CHOOSE e \in {obj[i] : i \in 1..Len(obj)} : e[1] = k)[2]
    ELSE Undef

\* JSON text of a primitive value
StringifyValue(v) ==
  CASE v.t = "string" -> "\"" \o v.s \o "\""
    [] v.t = "number" -> NumberToString(v.n)
    [] v.t = "boolean" -> (IF v.b THEN "true" ELSE "false")
    [] OTHER -> "null"

RECURSIVE StringifyEntries(_, _)
StringifyEntries(obj, i) ==
  IF i > Len(obj) THEN ""
  ELSE "\n  \"" \o obj[i][1] \o "\": " \o StringifyValue(obj[i][2])
       \o (IF i < Len(obj) THEN "," ELSE "") \o StringifyEntries(obj, i + 1)

\* JSON.stringify(obj, null, 2) of a flat object
JSONStringify(obj) ==
  IF Len(obj) = 0 THEN "{}" ELSE "{" \o StringifyEntries(obj, 1) \o "\n}"

(***************************************************************************)
(* Outcomes of a handler                                                   *)
(***************************************************************************)
Return(v) == [kind |-> "return", value |-> v]

\* destructuring undefined or null raises a TypeError
Throw == [kind |-> "throw", value |-> <<>>]

\* an arguments value: undefined, null, a string, or an object whose only
\* property of interest is forceAlert (Undef when the property is absent)
ArgsVal(t, fa) == [t |-> t, forceAlert |-> fa]

NoArgs == ArgsVal("undefined", Undef)

EmptyObject == ArgsVal("object", Undef)

\* const { forceAlert = false } = args
DestructureForceAlert(args) ==
  LET got == IF args.t = "object" THEN args.forceAlert ELSE Undef
  IN  IF got = Undef THEN JBool(FALSE) ELSE got

\* The pictograph that opens each message of the first and third variant
\* is left out of the message strings; nothing reads it.
handleOuraSleepCheck(args) ==
  IF args.t \in {"undefined", "null"} THEN Throw
  ELSE
    LET forceAlert == DestructureForceAlert(args)
        sleepScore == IF Truthy(forceAlert) THEN 65 ELSE 85
        totalSleepMin == IF Truthy(forceAlert) THEN 360 ELSE 450
        recommendation == IF sleepScore >= 70 THEN "train" ELSE "rest"
        alert == IF Truthy(forceAlert) THEN forceAlert ELSE JBool(sleepScore < 70)
    IN  Return(<< <<"sleepScore", JNum(sleepScore)>>,
                  <<"totalSleepHours", JStr(toFixed1(totalSleepMin, 60))>>,
                  <<"recommendation", JStr(recommendation)>>,
                  <<"alert", alert>>,
                  <<"message", JStr(IF Truthy(alert)
                      THEN "Sleep score is " \o NumberToString(sleepScore) \o ". Consider resting today."
                      ELSE "Sleep score is " \o NumberToString(sleepScore) \o ". You're good to train!")>> >>)

handleOuraSleepSummary(args) ==
  Return(<< <<"weeklyAverage", JNum(82)>>,
            <<"trend", JStr("improving")>>,
            <<"daysWithGoodSleep", JNum(5)>>,
            <<"daysWithPoorSleep", JNum(2)>>,
            <<"message", JStr("Your sleep has been improving this week. Keep it up!")>> >>)

\* the second variant's handler with the threshold of the recommendation at 60
handleOuraSleepCheck_v2_Threshold60(args) ==
  IF args.t \in {"undefined", "null"} THEN Throw
  ELSE
    LET forceAlert == DestructureForceAlert(args)
        sleepScore == IF Truthy(forceAlert) THEN 65 ELSE 85
        totalSleepMin == IF Truthy(forceAlert) THEN 360 ELSE 450
        recommendation == IF sleepScore >= 60 THEN "train" ELSE "rest"
        alert == IF Truthy(forceAlert) THEN forceAlert ELSE JBool(sleepScore < 70)
    IN  Return(<< <<"sleep_score", JNum(sleepScore)>>,
                  <<"total_sleep_min", JNum(totalSleepMin)>>,
                  <<"recommendation", JStr(recommendation)>>,
                  <<"alert", alert>>,
                  <<"message", JStr(IF Truthy(alert)
                      THEN "Low sleep score (" \o NumberToString(sleepScore) \o "). Consider resting today."
                      ELSE "Good sleep score (" \o NumberToString(sleepScore) \o "). Ready to train!")>> >>)

\* second variant of the handlers (snake_case fields, minutes)
handleOuraSleepCheck_v2(args) ==
  IF args.t \in {"undefined", "null"} THEN Throw
  ELSE
    LET forceAlert == DestructureForceAlert(args)
        sleepScore == IF Truthy(forceAlert) THEN 65 ELSE 85
        totalSleepMin == IF Truthy(forceAlert) THEN 360 ELSE 450
        recommendation == IF sleepScore >= 70 THEN "train" ELSE "rest"
        alert == IF Truthy(forceAlert) THEN forceAlert ELSE JBool(sleepScore < 70)
    IN  Return(<< <<"sleep_score", JNum(sleepScore)>>,
                  <<"total_sleep_min", JNum(totalSleepMin)>>,
                  <<"recommendation", JStr(recommendation)>>,
                  <<"alert", alert>>,
                  <<"message", JStr(IF Truthy(alert)
                      THEN "Low sleep score (" \o NumberToString(sleepScore) \o "). Consider resting today."
                      ELSE "Good sleep score (" \o NumberToString(sleepScore) \o "). Ready to train!")>> >>)

handleOuraSleepSummary_v2(args) ==
  Return(<< <<"period", JStr("last_7_days")>>,
            <<"average_sleep_score", JNum(82)>>,
            <<"average_sleep_duration_min", JNum(420)>>,
            <<"total_nights", JNum(7)>>,
            <<"nights_below_threshold", JNum(2)>>,
            <<"summary", JStr("Week summary stub - placeholder for real Oura API integration")>> >>)

\* third variant of the handlers (src/unnamed/part_000)
handleOuraSleepCheck_poke(args) ==
  IF args.t \in {"undefined", "null"} THEN Throw
  ELSE
    LET forceAlert == DestructureForceAlert(args)
        sleepScore == IF Truthy(forceAlert) THEN 65 ELSE 85
        totalSleepMin == IF Truthy(forceAlert) THEN 360 ELSE 450
        recommendation == IF sleepScore >= 70 THEN "train" ELSE "rest"
        alert == IF Truthy(forceAlert) THEN forceAlert ELSE JBool(sleepScore < 70)
    IN  Return(<< <<"sleepScore", JNum(sleepScore)>>,
                  <<"totalSleepHours", JStr(toFixed1(totalSleepMin, 60))>>,
                  <<"recommendation", JStr(recommendation)>>,
                  <<"alert", alert>>,
                  <<"message", JStr(IF Truthy(alert)
                      THEN "Sleep score is " \o NumberToString(sleepScore) \o ". Consider resting today."
                      ELSE "Sleep score is " \o NumberToString(sleepScore) \o ". You're good to train!")>> >>)

\* the third variant's summary with its arguments destructured, as the check does
handleOuraSleepSummary_poke_ReadsArgs(args) ==
  IF args.t \in {"undefined", "null"} THEN Throw
  ELSE Return(<< <<"weeklyAverage", JNum(82)>>,
                 <<"trend", JStr("improving")>>,
                 <<"daysWithGoodSleep", JNum(5)>>,
                 <<"daysWithPoorSleep", JNum(2)>>,
                 <<"message", JStr("Your sleep has been improving this week. Keep it up!")>> >>)

handleOuraSleepSummary_poke(args) ==
  Return(<< <<"weeklyAverage", JNum(82)>>,
            <<"trend", JStr("improving")>>,
            <<"daysWithGoodSleep", JNum(5)>>,
            <<"daysWithPoorSleep", JNum(2)>>,
            <<"message", JStr("Your sleep has been improving this week. Keep it up!")>> >>)

(***************************************************************************)
(* Tool descriptors, as the discovery routes spell them out                *)
(***************************************************************************)
NoSchema == [present |-> FALSE, type |-> "", properties |-> <<>>]

Schema(props) == [present |-> TRUE, type |-> "object", properties |-> props]

Descriptor(name, description, inputSchema) ==
  [name |-> name, description |-> description, inputSchema |-> inputSchema]

\* a tools/list that lost its second entry
MessagesToolsList_OneTool ==
  << Descriptor("oura_sleep_check",
                JStr("Check sleep data and determine if user should rest or train"),
                Schema(<< [name |-> "forceAlert", type |-> "boolean",
                           description |-> "Force an alert regardless of sleep score"] >>)) >>

\* tools/list of POST /messages
MessagesToolsList ==
  << Descriptor("oura_sleep_check",
                JStr("Check sleep data and determine if user should rest or train"),
                Schema(<< [name |-> "forceAlert", type |-> "boolean",
                           description |-> "Force an alert regardless of sleep score"] >>)),
     Descriptor("oura_sleep_summary", JStr("Get weekly sleep summary"), Schema(<<>>)) >>

\* GET /mcp/tools of the first variant
McpToolsList ==
  << Descriptor("oura_sleep_check",
                JStr("Check sleep data and determine if user should rest or train"),
                Schema(<< [name |-> "forceAlert", type |-> "boolean",
                           description |-> "Force an alert regardless of sleep score"] >>)),
     Descriptor("oura_sleep_summary", JStr("Get weekly sleep summary"), Schema(<<>>)) >>

\* a list that names the tools without their prefix, while the switch keeps it
McpToolsList_v2_Renamed ==
  << Descriptor("sleep_check",
                JStr("Check sleep data and determine if user should rest or train"),
                Schema(<< [name |-> "forceAlert", type |-> "boolean",
                           description |-> "Force an alert regardless of sleep score"] >>)),
     Descriptor("sleep_summary", JStr("Get weekly sleep summary"), Schema(<<>>)) >>

\* GET /mcp/tools of the second variant
McpToolsList_v2 ==
  << Descriptor("oura_sleep_check",
                JStr("Check sleep data and determine if user should rest or train"),
                Schema(<< [name |-> "forceAlert", type |-> "boolean",
                           description |-> "Force an alert regardless of sleep score"] >>)),
     Descriptor("oura_sleep_summary", JStr("Get weekly sleep summary"), Schema(<<>>)) >>

\* the manifest of GET /mcp in the third variant
ManifestTools ==
  << Descriptor("oura_sleep_check",
                JStr("Check your sleep quality and get a recommendation whether to train or rest today."),
                Schema(<< [name |-> "forceAlert", type |-> "boolean",
                           description |-> "Force an alert for testing (default: false)"] >>)),
     Descriptor("oura_sleep_summary", JStr("Get a weekly summary of your sleep data."), Schema(<<>>)) >>

\* GET /mcp/tools in the third variant: names only
NameOnlyTools ==
  << Descriptor("oura_sleep_check", Undef, NoSchema),
     Descriptor("oura_sleep_summary", Undef, NoSchema) >>

(***************************************************************************)
(* Responses                                                               *)
(***************************************************************************)
BaseResponse ==
  [status |-> 200, threw |-> FALSE, body |-> <<>>, error |-> <<>>,
   content |-> <<>>, listed |-> FALSE, tools |-> <<>>]

\* reply.code(status).send(body), or a returned flat object
Send(status, body) == [BaseResponse EXCEPT !.status = status, !.body = body]

\* the handler threw: the framework's default error handler answers 500
Threw == [BaseResponse EXCEPT !.status = 500, !.threw = TRUE]

\* a returned object that carries a tools array
SendTools(body, tools) == [BaseResponse EXCEPT !.body = body, !.listed = TRUE, !.tools = tools]

\* return handleX(args) from a route
ReturnOutcome(outcome) ==
  IF outcome.kind = "throw" THEN Threw ELSE Send(200, outcome.value)

\* a not-found message that drops the attempted name
NotFoundMessage_NoName(what, name) == what \o " not found"

NotFoundMessage(what, name) == what \o " '" \o JSToString(name) \o "' not found"

(***************************************************************************)
(* Request bodies                                                          *)
(***************************************************************************)
\* POST /mcp/tools/run and POST /mcp: { tool, args }
RestBody(t, tool, args) == [t |-> t, tool |-> tool, args |-> args]

\* params of tools/call: { name, arguments }
Params(t, name, arguments) == [t |-> t, name |-> name, arguments |-> arguments]

\* POST /messages: { jsonrpc, id, method, params }
RpcBody(t, jsonrpc, id, method, params) ==
  [t |-> t, jsonrpc |-> jsonrpc, id |-> id, method |-> method, params |-> params]

\* const { x } = v throws when v is undefined or null
Destructurable(v) == v.t \notin {"undefined", "null"}

\* a destructuring default `= {}` applies to undefined only
DefaultEmpty(args) == IF args.t = "undefined" THEN EmptyObject ELSE args

(***************************************************************************)
(* Routes of the first variant                                             *)
(***************************************************************************)
RpcEnvelope(id) == << <<"jsonrpc", JStr("2.0")>>, <<"id", id>> >>

RpcError(status, id, code, message) ==
  [BaseResponse EXCEPT !.status = status, !.body = RpcEnvelope(id),
     !.error = << <<"code", JNum(code)>>, <<"message", JStr(message)>> >>]

RpcResult(id, outcome) ==
  IF outcome.kind = "throw" THEN Threw
  ELSE [BaseResponse EXCEPT !.body = RpcEnvelope(id),
          !.content = << << <<"type", JStr("text")>>,
                            <<"text", JStr(JSONStringify(outcome.value))>> >> >>]

\* a tools/call that hands params, not params.arguments, to the handler
ToolsCall_PassesParams(id, params) ==
  IF ~Destructurable(params) THEN Threw
  ELSE
    LET name == params.name
        args == EmptyObject
    IN  CASE name = JStr("oura_sleep_check") -> RpcResult(id, handleOuraSleepCheck(args))
          [] name = JStr("oura_sleep_summary") -> RpcResult(id, handleOuraSleepSummary(args))
          [] OTHER -> RpcError(404, id, 0 - 32601, NotFoundMessage("Tool", name))

ToolsCall(id, params) ==
  IF ~Destructurable(params) THEN Threw
  ELSE
    LET name == params.name
        args == DefaultEmpty(params.arguments)
    IN  CASE name = JStr("oura_sleep_check") -> RpcResult(id, handleOuraSleepCheck(args))
          [] name = JStr("oura_sleep_summary") -> RpcResult(id, handleOuraSleepSummary(args))
          [] OTHER -> RpcError(404, id, 0 - 32601, NotFoundMessage("Tool", name))

PostMessages(body) ==
  IF ~Destructurable(body) THEN Threw
  ELSE IF body.jsonrpc # JStr("2.0") THEN RpcError(400, body.id, 0 - 32600, "Invalid Request")
  ELSE CASE body.method = JStr("tools/list") ->
              [BaseResponse EXCEPT !.body = RpcEnvelope(body.id), !.listed = TRUE,
                 !.tools = MessagesToolsList]
         [] body.method = JStr("tools/call") -> ToolsCall(body.id, body.params)
         [] OTHER -> RpcError(404, body.id, 0 - 32601, NotFoundMessage("Method", body.method))

GetMcp ==
  Send(200, << <<"name", JStr("oura_mcp_server")>>,
               <<"version", JStr("1.0.0")>>,
               <<"description", JStr("Oura Ring MCP Server for sleep tracking and training recommendations")>>,
               <<"ok", JBool(TRUE)>> >>)

GetMcpTools == SendTools(<<>>, McpToolsList)

PostMcpToolsRun(body) ==
  IF ~Destructurable(body) THEN Threw
  ELSE
    LET tool == body.tool
        args == DefaultEmpty(body.args)
    IN  IF ~Truthy(tool) THEN Send(400, << <<"error", JStr("Tool name is required")>> >>)
        ELSE CASE tool = JStr("oura_sleep_check") -> ReturnOutcome(handleOuraSleepCheck(args))
               [] tool = JStr("oura_sleep_summary") -> ReturnOutcome(handleOuraSleepSummary(args))
               [] OTHER -> Send(404, << <<"error", JStr(NotFoundMessage("Tool", tool))>> >>)

(***************************************************************************)
(* Routes of the second variant                                            *)
(***************************************************************************)
GetMcpTools_v2 == SendTools(<<>>, McpToolsList_v2)

PostMcpToolsRun_v2(body) ==
  IF ~Destructurable(body) THEN Threw
  ELSE
    LET tool == body.tool
        args == DefaultEmpty(body.args)
    IN  IF ~Truthy(tool) THEN Send(400, << <<"error", JStr("Tool name is required")>> >>)
        ELSE CASE tool = JStr("oura_sleep_check") -> ReturnOutcome(handleOuraSleepCheck_v2(args))
               [] tool = JStr("oura_sleep_summary") -> ReturnOutcome(handleOuraSleepSummary_v2(args))
               [] OTHER -> Send(404, << <<"error", JStr(NotFoundMessage("Tool", tool))>> >>)

(***************************************************************************)
(* Routes of the third variant                                             *)
(***************************************************************************)
GetMcp_poke ==
  SendTools(<< <<"name", JStr("oura_mcp_server")>>,
               <<"version", JStr("1.0.0")>>,
               <<"description", JStr("Oura Ring sleep data MCP server for Poke")>> >>,
            ManifestTools)

GetMcpTools_poke == SendTools(<<>>, NameOnlyTools)

\* const { tool, args } = request.body || {}: no default for args
PostMcp_poke(body) ==
  LET b == IF Destructurable(body) THEN body ELSE RestBody("object", Undef, NoArgs)
      tool == b.tool
      args == b.args
  IN  CASE tool = JStr("oura_sleep_check") -> ReturnOutcome(handleOuraSleepCheck_poke(args))
        [] tool = JStr("oura_sleep_summary") -> ReturnOutcome(handleOuraSleepSummary_poke(args))
        [] OTHER -> Send(404, << <<"error", JStr(NotFoundMessage("Tool", tool))>> >>)

(***************************************************************************)
(* The SSE route of the first variant: one heartbeat timer per connection  *)
(***************************************************************************)
Connections == 1..MaxConn

Heartbeats(c) == Len(SelectSeq(written[c], LAMBDA e : e = "heartbeat"))

\* the body of GET /sse up to its last statement: the endpoint event is
\* written, then the interval is armed and the close listener registered
GetSse(c) ==
  /\ variant = "sse"
  /\ conn[c] = "idle"
  /\ conn' = [conn EXCEPT ![c] = "open"]
  /\ written' = [written EXCEPT ![c] = Append(@, "endpoint")]
  /\ timer' = [timer EXCEPT ![c] = "active"]
  /\ UNCHANGED toolVars

\* the setInterval callback of connection c
HeartbeatTick(c) ==
  /\ timer[c] = "active"
  /\ Heartbeats(c) < MaxHeartbeats
  /\ written' = [written EXCEPT ![c] = Append(@, "heartbeat")]
  /\ UNCHANGED <<conn, timer, toolVars>>

\* a close listener that leaves the interval armed
ClearInterval_Forgotten(c) == timer

\* clearInterval(heartbeatInterval) in the listener of connection c
ClearInterval(c) == [timer EXCEPT ![c] = "cleared"]

\* request.raw emits 'close': the listener of connection c runs
Close(c) ==
  /\ conn[c] = "open"
  /\ conn' = [conn EXCEPT ![c] = "closed"]
  /\ timer' = ClearInterval(c)
  /\ UNCHANGED <<written, toolVars>>

(***************************************************************************)
(* Inputs                                                                  *)
(***************************************************************************)
Variants == {"sse", "rest", "poke"}

ForceAlertValues ==
  {Undef, JBool(TRUE), JBool(FALSE), Null, JStr("yes"), JStr(""), JNum(0), JNum(1)}

ArgsValues ==
  {NoArgs, ArgsVal("null", Undef), ArgsVal("string", Undef)}
    \cup {ArgsVal("object", fa) : fa \in ForceAlertValues}

ToolNames ==
  {Undef, JStr(""), JStr("oura_sleep_check"), JStr("oura_sleep_summary"),
   JStr("sleep_check"), JStr("nonexistent_tool")}

NoBody == RestBody("undefined", Undef, NoArgs)

RestBodies ==
  {NoBody, RestBody("null", Undef, NoArgs)}
    \cup {RestBody("object", tool, args) : tool \in ToolNames, args \in ArgsValues}

NoParams == Params("undefined", Undef, NoArgs)

ParamsValues ==
  {NoParams} \cup {Params("object", name, args) : name \in ToolNames, args \in ArgsValues}

Methods == {JStr("tools/list"), JStr("tools/call"), JStr("resources/list")}

RpcBodies ==
  {RpcBody("undefined", Undef, Undef, Undef, NoParams)}
    \cup {RpcBody("object", jsonrpc, JNum(1), method, params) :
            jsonrpc \in {JStr("2.0"), Undef}, method \in Methods, params \in ParamsValues}

(***************************************************************************)
(* The servers as state machines                                           *)
(***************************************************************************)
Init ==
  /\ variant \in Variants
  /\ request = [endpoint |-> "none", body |-> NoBody]
  /\ response = BaseResponse
  /\ calls = <<>>
  /\ conn = [c \in Connections |-> "idle"]
  /\ timer = [c \in Connections |-> "none"]
  /\ written = [c \in Connections |-> <<>>]

\* one request served: the route's reply is the response
Serve(endpoint, body, reply, kind) ==
  /\ Len(calls) < MaxCalls
  /\ request' = [endpoint |-> endpoint, body |-> body]
  /\ response' = reply
  /\ calls' = Append(calls, kind)
  /\ UNCHANGED <<variant, sseVars>>

Request_GetMcp ==
  \/ /\ variant = "sse"
     /\ Serve("GET /mcp", NoBody, GetMcp, "list")
  \/ /\ variant = "poke"
     /\ Serve("GET /mcp", NoBody, GetMcp_poke, "list")

Request_GetMcpTools ==
  \/ /\ variant = "sse"
     /\ Serve("GET /mcp/tools", NoBody, GetMcpTools, "list")
  \/ /\ variant = "rest"
     /\ Serve("GET /mcp/tools", NoBody, GetMcpTools_v2, "list")
  \/ /\ variant = "poke"
     /\ Serve("GET /mcp/tools", NoBody, GetMcpTools_poke, "list")

Request_PostMessages ==
  /\ variant = "sse"
  /\ \E body \in RpcBodies :
       Serve("POST /messages", body, PostMessages(body),
             IF body.method = JStr("tools/list") THEN "list" ELSE "invoke")

Request_PostMcpToolsRun ==
  \/ /\ variant = "sse"
     /\ \E body \in RestBodies :
          Serve("POST /mcp/tools/run", body, PostMcpToolsRun(body), "invoke")
  \/ /\ variant = "rest"
     /\ \E body \in RestBodies :
          Serve("POST /mcp/tools/run", body, PostMcpToolsRun_v2(body), "invoke")

Request_PostMcp ==
  /\ variant = "poke"
  /\ \E body \in RestBodies :
       Serve("POST /mcp", body, PostMcp_poke(body), "invoke")

Next ==
  \/ Request_GetMcp
  \/ Request_GetMcpTools
  \/ Request_PostMessages
  \/ Request_PostMcpToolsRun
  \/ Request_PostMcp

Spec == Init /\ [][Next]_vars

NextSSE ==
  \E c \in Connections :
    \/ GetSse(c)
    \/ HeartbeatTick(c)
    \/ Close(c)

InitSSE == Init /\ variant = "sse"

SpecSSE == InitSSE /\ [][NextSSE]_vars

(***************************************************************************)
(* Reading a request and its response                                      *)
(***************************************************************************)
RestInvoke == request.endpoint \in {"POST /mcp/tools/run", "POST /mcp"}

\* a JSON-RPC 2.0 tools/call
RpcInvoke ==
  /\ request.endpoint = "POST /messages"
  /\ request.body.t = "object"
  /\ request.body.jsonrpc = JStr("2.0")
  /\ request.body.method = JStr("tools/call")

\* the request carries the object the tool name is read from
NamedInvoke ==
  \/ RestInvoke /\ request.body.t = "object"
  \/ RpcInvoke /\ request.body.params.t = "object"

RequestedName == IF RpcInvoke THEN request.body.params.name ELSE request.body.tool

RequestedArgs == IF RpcInvoke THEN request.body.params.arguments ELSE request.body.args

\* the response is a ToolResult
IsToolResult ==
  /\ ~response.threw
  /\ response.status = 200
  /\ \/ RestInvoke
     \/ RpcInvoke /\ response.content # <<>>

\* the error text of a reported error, "" when there is none
ErrorText ==
  IF RpcInvoke THEN Get(response.error, "message").s ELSE Get(response.body, "error").s

RegisteredNames == {JStr("oura_sleep_check"), JStr("oura_sleep_summary")}

\* C1 as stated: on every invocation endpoint, every name outside the
\* registry, a missing or empty one included, yields a not-found outcome that
\* carries the attempted name.
C1_Original ==
  (NamedInvoke /\ RequestedName \notin RegisteredNames)
    => /\ response.status = 404
       /\ ErrorText = "Tool '" \o JSToString(RequestedName) \o "' not found"

\* C1 amended: a name outside the registry never yields a ToolResult nor a
\* throw; it yields 404 "Tool '<name>' not found" with the attempted name,
\* except that POST /mcp/tools/run answers a missing or empty name with
\* 400 "Tool name is required".
C1_UnknownToolNotFound ==
  (NamedInvoke /\ RequestedName \notin RegisteredNames)
    => /\ ~IsToolResult
       /\ ~response.threw
       /\ IF request.endpoint = "POST /mcp/tools/run" /\ ~Truthy(RequestedName)
            THEN response.status = 400 /\ ErrorText = "Tool name is required"
            ELSE /\ response.status = 404
                 /\ ErrorText = "Tool '" \o JSToString(RequestedName) \o "' not found"

C1_Witness ==
  /\ RpcInvoke
  /\ request.body.params.t = "object"
  /\ RequestedName = JStr("nonexistent_tool")
  /\ response.status = 404
  /\ Get(response.error, "message") = JStr("Tool 'nonexistent_tool' not found")

\* C2 as stated: every request to an invocation endpoint, also one without a
\* body, without args, with args null or without params, completes with a
\* ToolResult or a reported error; the handler never throws.
C2_NeverThrows ==
  request.endpoint \in {"POST /messages", "POST /mcp/tools/run", "POST /mcp"}
    => ~response.threw

(***************************************************************************)
(* The results of the two tools                                            *)
(***************************************************************************)
\* an invocation of the check tool with an arguments mapping
SleepCheckInvoke ==
  /\ NamedInvoke
  /\ RequestedName = JStr("oura_sleep_check")
  /\ RequestedArgs.t = "object"

SleepSummaryInvoke == NamedInvoke /\ RequestedName = JStr("oura_sleep_summary")

ForceAlertGiven == RequestedArgs.forceAlert

\* the text content of a JSON-RPC result
ResultText == Get(response.content[1], "text").s

\* the score of a result, under either spelling of the field
Score(obj) ==
  IF "sleepScore" \in Keys(obj) THEN Get(obj, "sleepScore") ELSE Get(obj, "sleep_score")

TrainText ==
  "{\n  \"sleepScore\": 85,\n  \"totalSleepHours\": \"7.5\",\n  \"recommendation\": \"train\",\n  \"alert\": false,\n  \"message\": \"Sleep score is 85. You're good to train!\"\n}"

RestText ==
  "{\n  \"sleepScore\": 65,\n  \"totalSleepHours\": \"6.0\",\n  \"recommendation\": \"rest\",\n  \"alert\": true,\n  \"message\": \"Sleep score is 65. Consider resting today.\"\n}"

\* the values C3 names, without the sleep hours
CheckValues(score, recommendation, alert) ==
  /\ IsToolResult
  /\ IF RpcInvoke THEN ResultText = (IF alert THEN RestText ELSE TrainText)
     ELSE /\ Score(response.body) = JNum(score)
          /\ Get(response.body, "recommendation") = JStr(recommendation)
          /\ Get(response.body, "alert") = JBool(alert)

\* the sleep hours C3 names
CheckHours(hours) == RpcInvoke \/ Get(response.body, "totalSleepHours") = JStr(hours)

\* C3 as stated: in every variant, forceAlert absent or false gives score 85,
\* sleep hours "7.5", recommendation "train", alert false, and forceAlert
\* true gives score 65, sleep hours "6.0", recommendation "rest", alert true.
C3_Original ==
  /\ (SleepCheckInvoke /\ ForceAlertGiven \in {Undef, JBool(FALSE)})
       => CheckValues(85, "train", FALSE) /\ CheckHours("7.5")
  /\ (SleepCheckInvoke /\ ForceAlertGiven = JBool(TRUE))
       => CheckValues(65, "rest", TRUE) /\ CheckHours("6.0")

\* C3 amended: score, recommendation and alert are as stated in every
\* variant; the sleep hours "7.5" / "6.0" are returned by the first and the
\* third variant only, the second variant returns total_sleep_min 450 / 360
\* and no sleep hours.
C3_SleepCheckValues ==
  /\ (SleepCheckInvoke /\ ForceAlertGiven \in {Undef, JBool(FALSE)})
       => /\ CheckValues(85, "train", FALSE)
          /\ IF variant = "rest"
               THEN /\ Get(response.body, "total_sleep_min") = JNum(450)
                    /\ "totalSleepHours" \notin Keys(response.body)
               ELSE CheckHours("7.5")
  /\ (SleepCheckInvoke /\ ForceAlertGiven = JBool(TRUE))
       => /\ CheckValues(65, "rest", TRUE)
          /\ IF variant = "rest"
               THEN /\ Get(response.body, "total_sleep_min") = JNum(360)
                    /\ "totalSleepHours" \notin Keys(response.body)
               ELSE CheckHours("6.0")

C3_Witness ==
  /\ request.endpoint = "POST /mcp"
  /\ SleepCheckInvoke
  /\ ForceAlertGiven = JBool(TRUE)
  /\ Get(response.body, "totalSleepHours") = JStr("6.0")
  /\ Get(response.body, "sleepScore") = JNum(65)

\* C4: for every boolean forceAlert (false when absent) the result of the
\* check tool has recommendation = "train" exactly when score >= 70, and
\* alert = (forceAlert or score < 70), in each of the three handlers.
C4_RecommendationAndAlert ==
  (RestInvoke /\ SleepCheckInvoke /\ ForceAlertGiven \in {Undef, JBool(TRUE), JBool(FALSE)})
    => /\ IsToolResult
       /\ Score(response.body).t = "number"
       /\ (Get(response.body, "recommendation") = JStr("train"))
            <=> (Score(response.body).n >= 70)
       /\ Get(response.body, "recommendation") \in {JStr("train"), JStr("rest")}
       /\ Get(response.body, "alert")
            = JBool(ForceAlertGiven.b \/ Score(response.body).n < 70)

C4_Witness ==
  /\ variant = "rest"
  /\ RestInvoke /\ SleepCheckInvoke
  /\ ForceAlertGiven = JBool(TRUE)
  /\ Get(response.body, "sleep_score").n < 70
  /\ Get(response.body, "recommendation") = JStr("rest")
  /\ Get(response.body, "alert") = JBool(TRUE)

SummaryText ==
  "{\n  \"weeklyAverage\": 82,\n  \"trend\": \"improving\",\n  \"daysWithGoodSleep\": 5,\n  \"daysWithPoorSleep\": 2,\n  \"message\": \"Your sleep has been improving this week. Keep it up!\"\n}"

\* the payload C5 names
FixedSummary ==
  /\ IsToolResult
  /\ IF RpcInvoke THEN ResultText = SummaryText
     ELSE /\ Get(response.body, "weeklyAverage") = JNum(82)
          /\ Get(response.body, "trend") = JStr("improving")
          /\ Get(response.body, "daysWithGoodSleep") = JNum(5)
          /\ Get(response.body, "daysWithPoorSleep") = JNum(2)

\* C5 as stated: in every variant the summary tool returns weekly average
\* 82, trend "improving", 5 good nights, 2 poor nights, whatever the
\* arguments and whatever calls preceded.
C5_Original == SleepSummaryInvoke => FixedSummary

\* C5 amended: the first and the third variant return that payload on every
\* call; the second variant returns another fixed payload on every call:
\* period "last_7_days", average_sleep_score 82, average_sleep_duration_min
\* 420, total_nights 7, nights_below_threshold 2, and no trend.
C5_SleepSummaryFixed ==
  SleepSummaryInvoke =>
    IF variant = "rest"
      THEN /\ IsToolResult
           /\ Get(response.body, "period") = JStr("last_7_days")
           /\ Get(response.body, "average_sleep_score") = JNum(82)
           /\ Get(response.body, "average_sleep_duration_min") = JNum(420)
           /\ Get(response.body, "total_nights") = JNum(7)
           /\ Get(response.body, "nights_below_threshold") = JNum(2)
           /\ "trend" \notin Keys(response.body)
      ELSE FixedSummary

C5_Witness ==
  /\ calls = <<"invoke", "invoke">>
  /\ request.endpoint = "POST /mcp"
  /\ SleepSummaryInvoke
  /\ RequestedArgs.t = "undefined"
  /\ Get(response.body, "weeklyAverage") = JNum(82)

(***************************************************************************)
(* Discovery                                                               *)
(***************************************************************************)
\* a JSON-RPC 2.0 tools/list
RpcList ==
  /\ request.endpoint = "POST /messages"
  /\ request.body.t = "object"
  /\ request.body.jsonrpc = JStr("2.0")
  /\ request.body.method = JStr("tools/list")

Discovery == request.endpoint \in {"GET /mcp/tools", "GET /mcp"} \/ RpcList

ListedNames == {response.tools[i].name : i \in 1..Len(response.tools)}

\* the two descriptors, each with name, description and inputSchema
TwoFullDescriptors ==
  /\ response.listed
  /\ ~response.threw /\ response.status = 200
  /\ Len(response.tools) = 2
  /\ response.tools[1].name = "oura_sleep_check"
  /\ response.tools[1].description.t = "string"
  /\ response.tools[1].inputSchema.present
  /\ response.tools[1].inputSchema.type = "object"
  /\ Len(response.tools[1].inputSchema.properties) = 1
  /\ response.tools[1].inputSchema.properties[1].name = "forceAlert"
  /\ response.tools[1].inputSchema.properties[1].type = "boolean"
  /\ response.tools[2].name = "oura_sleep_summary"
  /\ response.tools[2].description.t = "string"
  /\ response.tools[2].inputSchema.present
  /\ response.tools[2].inputSchema.type = "object"
  /\ response.tools[2].inputSchema.properties = <<>>

\* C6 as stated: every discovery operation (GET /mcp/tools, tools/list,
\* GET /mcp) returns exactly the two descriptors, each with name,
\* description and inputSchema, after any sequence of calls.
C6_Original == Discovery => TwoFullDescriptors

\* C6 amended: tools/list, GET /mcp/tools of the first and the second
\* variant and GET /mcp of the third variant return exactly the two
\* descriptors oura_sleep_check (optional boolean forceAlert) and
\* oura_sleep_summary (no parameters), each with name, description and
\* inputSchema; GET /mcp/tools of the third variant returns the two names
\* only; GET /mcp of the first variant returns a manifest without a tool
\* list.  Each returns the same after any sequence of calls.
C6_DiscoveryStable ==
  Discovery =>
    CASE request.endpoint = "GET /mcp/tools" /\ variant = "poke" ->
           /\ response.listed /\ response.status = 200
           /\ Len(response.tools) = 2
           /\ response.tools[1] = Descriptor("oura_sleep_check", Undef, NoSchema)
           /\ response.tools[2] = Descriptor("oura_sleep_summary", Undef, NoSchema)
      [] request.endpoint = "GET /mcp" /\ variant = "sse" ->
           /\ ~response.listed /\ response.status = 200
           /\ response.tools = <<>>
           /\ Get(response.body, "name") = JStr("oura_mcp_server")
           /\ Get(response.body, "ok") = JBool(TRUE)
      [] OTHER -> TwoFullDescriptors

C6_Witness ==
  /\ calls = <<"invoke", "list">>
  /\ RpcList
  /\ TwoFullDescriptors

\* C7 as stated: a forceAlert that is present and not a boolean yields a
\* reported validation error, never a ToolResult, and the alert field of a
\* ToolResult of the check tool is always a boolean.
C7_ValidationError ==
  /\ (SleepCheckInvoke /\ ForceAlertGiven.t \notin {"undefined", "boolean"})
       => /\ ~IsToolResult
          /\ ~response.threw
          /\ ErrorText # ""
  /\ (RestInvoke /\ SleepCheckInvoke /\ IsToolResult)
       => Get(response.body, "alert").t = "boolean"

(***************************************************************************)
(* The two adapters of the first variant                                   *)
(***************************************************************************)
\* the JSON-RPC response delivers what the REST reply `rest` delivers
SameOutcome(rest) ==
  IF rest.threw THEN response.threw
  ELSE IF rest.status = 200
    THEN IsToolResult /\ ResultText = JSONStringify(rest.body)
    ELSE /\ ~IsToolResult /\ ~response.threw
         /\ response.status = rest.status
         /\ ErrorText = Get(rest.body, "error").s

\* a tools/call with a tool name and an arguments mapping
MappedCall ==
  /\ RpcInvoke
  /\ request.body.params.t = "object"
  /\ RequestedName.t = "string"
  /\ RequestedArgs.t = "object"

RestOfCall == PostMcpToolsRun(RestBody("object", RequestedName, RequestedArgs))

\* C8 as stated: for every tool name and arguments mapping, tools/call and
\* POST /mcp/tools/run deliver the same outcome.
C8_Original == MappedCall => SameOutcome(RestOfCall)

\* C8 amended: they deliver the same outcome for every non-empty tool name
\* and arguments mapping; for the empty name POST /mcp/tools/run answers
\* 400 "Tool name is required" and tools/call answers 404 "Tool '' not found".
C8_AdaptersAgree ==
  MappedCall =>
    IF RequestedName.s # "" THEN SameOutcome(RestOfCall)
    ELSE /\ RestOfCall.status = 400
         /\ Get(RestOfCall.body, "error") = JStr("Tool name is required")
         /\ response.status = 404
         /\ ErrorText = "Tool '' not found"

C8_Witness ==
  /\ MappedCall
  /\ RequestedName = JStr("oura_sleep_check")
  /\ ForceAlertGiven = JBool(TRUE)
  /\ ResultText = RestText
  /\ Get(RestOfCall.body, "totalSleepHours") = JStr("6.0")

(***************************************************************************)
(* Registry and executor                                                   *)
(***************************************************************************)
\* the names a variant's discovery routes spell out
DiscoveryNames(v) ==
  LET tools == CASE v = "sse" -> McpToolsList
                 [] v = "rest" -> McpToolsList_v2
                 [] OTHER -> NameOnlyTools
  IN  {tools[i].name : i \in 1..Len(tools)}

\* the variant's executor returns a ToolResult for name n
Executes(v, n) ==
  LET reply == CASE v = "sse" -> PostMcpToolsRun(RestBody("object", n, EmptyObject))
                 [] v = "rest" -> PostMcpToolsRun_v2(RestBody("object", n, EmptyObject))
                 [] OTHER -> PostMcp_poke(RestBody("object", n, EmptyObject))
  IN  reply.status = 200 /\ ~reply.threw

ExecutableNames(v) == {n.s : n \in {m \in ToolNames : m.t = "string" /\ Executes(v, m)}}

\* C10: within each variant the names discovery returns are exactly the
\* names whose invocation returns a ToolResult rather than not found.
C10_RegistryMatchesExecutor ==
  /\ response.listed => ListedNames = ExecutableNames(variant)
  /\ (NamedInvoke /\ RequestedName.t = "string" /\ RequestedArgs.t = "object")
       => (IsToolResult <=> RequestedName.s \in DiscoveryNames(variant))

C10_Witness ==
  /\ variant = "poke"
  /\ request.endpoint = "GET /mcp/tools"
  /\ calls = <<"invoke", "list">>
  /\ ListedNames = {"oura_sleep_check", "oura_sleep_summary"}
  /\ ExecutableNames("poke") = ListedNames

(***************************************************************************)
(* The SSE heartbeat                                                       *)
(***************************************************************************)
EndpointFirst ==
  \A c \in Connections :
    /\ written[c] # <<>> => Head(written[c]) = "endpoint"
    /\ \A i \in 2..Len(written[c]) : written[c][i] = "heartbeat"

\* the timer of a connection runs exactly while the connection is open
TimerFollowsConnection ==
  \A c \in Connections :
    /\ conn[c] = "open" <=> timer[c] = "active"
    /\ conn[c] = "closed" <=> timer[c] = "cleared"

\* nothing is written to a closed connection; closing c leaves the other timers
ClosedStaysSilent ==
  \A c \in Connections :
    /\ conn[c] = "closed" => written'[c] = written[c] /\ conn'[c] = "closed"
    /\ (conn[c] = "open" /\ conn'[c] = "closed")
         => \A d \in Connections \ {c} : timer'[d] = timer[d]

\* C9: on each SSE connection the endpoint event is written before any
\* heartbeat; once the connection has closed its timer is cleared and no
\* heartbeat is written to it again; closing one connection does not stop
\* the heartbeats of the others.
C9_HeartbeatLifecycle ==
  /\ [](EndpointFirst /\ TimerFollowsConnection)
  /\ [][ClosedStaysSilent]_vars

C9_Witness ==
  /\ conn[1] = "closed"
  /\ written[1] = <<"endpoint", "heartbeat">>
  /\ conn[2] = "open"
  /\ Heartbeats(2) = MaxHeartbeats
  /\ timer[2] = "active"

=============================================================================
